---- MODULE Spec2Model ----
(***************************************************************************)
(* Model of anomalib's AUPRO metric (src/anomalib/utils/metrics/aupro.py).  *)
(*                                                                         *)
(* The metric keeps two buffers of tensors (preds, target).  update()      *)
(* appends to them, compute() concatenates them, labels the connected      *)
(* regions of the target, builds one ROC curve per region, resamples the   *)
(* curves with interp1d, averages them and integrates the average.         *)
(*                                                                         *)
(* Tensor elements of dtype float32 are modelled bit for bit: a float is   *)
(* a sign, a 24 bit significand and an exponent, and every arithmetic      *)
(* operation rounds to nearest, ties to even, as IEEE 754 binary32 does.   *)
(* Subnormals, overflow to infinity and the sign of zero are not modelled: *)
(* no value of the metric on the inputs considered here comes near them.   *)
(***************************************************************************)
EXTENDS Integers, Sequences, FiniteSets

(***************************************************************************)
(* float32                                                                 *)
(***************************************************************************)

Float32 == [k : {"fin", "inf", "nan"}, s : {-1, 1}, m : Nat, e : Int]

NaN == [k |-> "nan", s |-> 1, m |-> 0, e |-> 0]

Inf(sgn) == [k |-> "inf", s |-> sgn, m |-> 0, e |-> 0]

Zero == [k |-> "fin", s |-> 1, m |-> 0, e |-> 0]

\* Number of bits of the natural number n.
BitLen[n \in Nat] == IF n = 0 THEN 0 ELSE 1 + BitLen[n \div 2]

\* The float nearest to sgn * (M + f) * 2^ex, where 0 <= f < 1 and sticky says
\* whether f > 0; ties go to the even significand.
Round[sgn \in {-1, 1}, M \in Nat, ex \in Int, sticky \in BOOLEAN] ==
    IF M = 0 THEN Zero
    ELSE LET L == BitLen[M] IN
         IF L <= 24
         THEN [k |-> "fin", s |-> sgn, m |-> M * 2^(24 - L), e |-> ex - (24 - L)]
         ELSE LET sh   == L - 24
                  q    == M \div 2^sh
                  r    == M % 2^sh
                  half == 2^(sh - 1)
                  up   == r > half \/ (r = half /\ (sticky \/ q % 2 = 1))
              IN  IF up /\ q + 1 = 2^24
                  THEN [k |-> "fin", s |-> sgn, m |-> 2^23, e |-> ex + sh + 1]
                  ELSE [k |-> "fin", s |-> sgn, m |-> IF up THEN q + 1 ELSE q, e |-> ex + sh]

\* An integer (int64 tensor element or Python int) converted to float32.
FromInt[n \in Int] == IF n < 0 THEN Round[-1, -n, 0, FALSE] ELSE Round[1, n, 0, FALSE]

Neg[a \in Float32] == IF a.k = "nan" \/ (a.k = "fin" /\ a.m = 0) THEN a ELSE [a EXCEPT !.s = -a.s]

\* x + y for finite nonzero x, y with x.e >= y.e, with three guard bits.
AddAligned[x \in Float32, y \in Float32] ==
    LET d == x.e - y.e IN
    IF d > 26 THEN x
    ELSE LET X  == x.m * 8
             Y  == (y.m * 8) \div 2^d
             st == (y.m * 8) % 2^d # 0
         IN  IF x.s = y.s THEN Round[x.s, X + Y, x.e - 3, st]
             ELSE IF X = Y /\ ~st THEN Zero
             ELSE IF X > Y
                  THEN Round[x.s, IF st THEN X - Y - 1 ELSE X - Y, x.e - 3, st]
                  ELSE Round[y.s, Y - X, x.e - 3, FALSE]

Add[a \in Float32, b \in Float32] ==
    IF a.k = "nan" \/ b.k = "nan" THEN NaN
    ELSE IF a.k = "inf" THEN (IF b.k = "inf" /\ b.s # a.s THEN NaN ELSE a)
    ELSE IF b.k = "inf" THEN b
    ELSE IF a.m = 0 THEN b
    ELSE IF b.m = 0 THEN a
    ELSE IF a.e >= b.e THEN AddAligned[a, b] ELSE AddAligned[b, a]

Sub[a \in Float32, b \in Float32] == Add[a, Neg[b]]

\* The 48 bit product H * 2^24 + L of two significands, from 12 bit limbs.
MulWide[am \in Nat, bm \in Nat] ==
    LET ah  == am \div 4096
        al  == am % 4096
        bh  == bm \div 4096
        bl  == bm % 4096
        mid == ah * bl + al * bh
        lo  == al * bl + (mid % 4096) * 4096
    IN  [H |-> ah * bh + mid \div 4096 + lo \div 16777216, L |-> lo % 16777216]

Mul[a \in Float32, b \in Float32] ==
    IF a.k = "nan" \/ b.k = "nan" THEN NaN
    ELSE IF a.k = "inf" \/ b.k = "inf"
         THEN (IF (a.k = "fin" /\ a.m = 0) \/ (b.k = "fin" /\ b.m = 0) THEN NaN
               ELSE Inf(a.s * b.s))
    ELSE IF a.m = 0 \/ b.m = 0 THEN Zero
    ELSE LET w == MulWide[a.m, b.m]
         IN  Round[a.s * b.s, w.H * 8 + w.L \div 2097152, a.e + b.e + 21, w.L % 2097152 # 0]

\* Long division in base 128: n more digits of the quotient q, remainder r.
DivSteps[q \in Nat, r \in Nat, dv \in Nat, n \in Nat] ==
    IF n = 0 THEN <<q, r>>
    ELSE DivSteps[q * 128 + (r * 128) \div dv, (r * 128) % dv, dv, n - 1]

Div[a \in Float32, b \in Float32] ==
    IF a.k = "nan" \/ b.k = "nan" THEN NaN
    ELSE IF a.k = "inf" THEN (IF b.k = "inf" THEN NaN ELSE Inf(a.s * b.s))
    ELSE IF b.k = "inf" THEN Zero
    ELSE IF b.m = 0 THEN (IF a.m = 0 THEN NaN ELSE Inf(a.s))
    ELSE IF a.m = 0 THEN Zero
    ELSE LET qr == DivSteps[a.m \div b.m, a.m % b.m, b.m, 4]
         IN  Round[a.s * b.s, qr[1], a.e - b.e - 28, qr[2] # 0]

\* a < b; every comparison with NaN is false.
Lt[a \in Float32, b \in Float32] ==
    IF a.k = "nan" \/ b.k = "nan" THEN FALSE
    ELSE IF a.k = "inf" THEN a.s = -1 /\ ~(b.k = "inf" /\ b.s = -1)
    ELSE IF b.k = "inf" THEN b.s = 1
    ELSE IF a.m = 0 THEN b.m # 0 /\ b.s = 1
    ELSE IF b.m = 0 THEN a.s = -1
    ELSE IF a.s # b.s THEN a.s = -1
    ELSE IF a.s = 1 THEN a.e < b.e \/ (a.e = b.e /\ a.m < b.m)
    ELSE b.e < a.e \/ (a.e = b.e /\ b.m < a.m)

Eq[a \in Float32, b \in Float32] == a.k # "nan" /\ b.k # "nan" /\ a = b

Le[a \in Float32, b \in Float32] == Lt[a, b] \/ Eq[a, b]

\* One-dimensional float tensors.
Floats == Seq(Float32)

(***************************************************************************)
(* Tensors and the library functions the metric calls                      *)
(***************************************************************************)

\* A tensor of shape (B, H, W): its elements in row-major order.
Tensor(shape, data) == [shape |-> shape, data |-> data]

Numel(shape) == shape[1] * shape[2] * shape[3]

RECURSIVE CatData(_)
CatData(x) == IF x = <<>> THEN <<>> ELSE Head(x).data \o CatData(Tail(x))

RECURSIVE SumBatch(_)
SumBatch(x) == IF x = <<>> THEN 0 ELSE Head(x).shape[1] + SumBatch(Tail(x))

\* dim_zero_cat with the empty list turned into a zero tensor instead of an error.
dim_zero_cat_zero_default(x) ==
    IF Len(x) = 0
    THEN [raised |-> "", val |-> Tensor(<<1, 1, 1>>, <<0>>)]
    ELSE IF \E i \in 1..Len(x) : x[i].shape[2] # x[1].shape[2] \/ x[i].shape[3] # x[1].shape[3]
    THEN [raised |-> "RuntimeError: Sizes of tensors must match except in dimension 0",
          val |-> Tensor(<<0, 0, 0>>, <<>>)]
    ELSE [raised |-> "",
          val |-> Tensor(<<SumBatch(x), x[1].shape[2], x[1].shape[3]>>, CatData(x))]

\* torchmetrics dim_zero_cat: torch.cat along dimension 0 of a list of tensors;
\* an empty list is an error.
dim_zero_cat(x) ==
    IF Len(x) = 0
    THEN [raised |-> "ValueError: No samples to concatenate",
          val |-> Tensor(<<0, 0, 0>>, <<>>)]
    ELSE IF \E i \in 1..Len(x) : x[i].shape[2] # x[1].shape[2] \/ x[i].shape[3] # x[1].shape[3]
    THEN [raised |-> "RuntimeError: Sizes of tensors must match except in dimension 0",
          val |-> Tensor(<<0, 0, 0>>, <<>>)]
    ELSE [raised |-> "",
          val |-> Tensor(<<SumBatch(x), x[1].shape[2], x[1].shape[3]>>, CatData(x))]

SeqToSet(s) == {s[i] : i \in 1..Len(s)}

SetMax(S) == CHOOSE v \in S : \A w \in S : w <= v

SetMin(S) == CHOOSE v \in S : \A w \in S : v <= w

SortAsc[S \in SUBSET Int] == IF S = {} THEN <<>> ELSE <<SetMin(S)>> \o SortAsc[S \ {SetMin(S)}]

SortDesc[S \in SUBSET Int] == IF S = {} THEN <<>> ELSE <<SetMax(S)>> \o SortDesc[S \ {SetMax(S)}]

\* torch.unique: the distinct elements in ascending order.
unique(s) == SortAsc[SeqToSet(s)]

\* The pixels of the 3x3 window around pixel i (1-based position in the
\* flattened tensor) that lie inside the image of pixel i.
Window(shape, i) ==
    LET H == shape[2]
        W == shape[3]
        n == (i - 1) \div (H * W)
        r == ((i - 1) % (H * W)) \div W
        c == (i - 1) % W
    IN  {n * H * W + q[1] * W + q[2] + 1 :
            q \in {q \in ((r - 1)..(r + 1)) \X ((c - 1)..(c + 1)) :
                    q[1] >= 0 /\ q[1] < H /\ q[2] >= 0 /\ q[2] < W}}

\* num rounds of out[mask] = max_pool2d(out, 3, stride 1, padding 1)[mask];
\* a round that changes nothing ends the iteration, since none after it would.
MaxPoolIter[shape \in Seq(Nat), mask \in Seq(BOOLEAN), out \in Seq(Nat), num \in Nat] ==
    IF num = 0 THEN out
    ELSE LET nxt == <<>> \o [i \in 1..Len(out) |->
                        IF mask[i] THEN SetMax({out[j] : j \in Window(shape, i)}) ELSE out[i]]
         IN  IF nxt = out THEN out ELSE MaxPoolIter[shape, mask, nxt, num - 1]

\* kornia connected_components(image, num_iterations=100): every pixel whose
\* value is 1 gets the largest linear index of its 8-connected component,
\* every other pixel gets 0.
connected_components(t) ==
    LET mask == <<>> \o [i \in 1..Len(t.data) |-> t.data[i] = 1]
    IN  MaxPoolIter[t.shape, mask, <<>> \o [i \in 1..Len(t.data) |-> IF mask[i] THEN i - 1 ELSE 0], 100]

\* fps / fps[-1], or zeros when the last count is not positive.
roc_rate[counts \in Seq(Int)] ==
    IF counts[Len(counts)] <= 0
    THEN [j \in 1..Len(counts) |-> Zero]
    ELSE <<>> \o [j \in 1..Len(counts) |-> Div[FromInt[counts[j]], FromInt[counts[Len(counts)]]]]

\* torchmetrics roc(preds, target) of flat tensors; pos[i] is target[i] = 1.
\* One point for each distinct score in descending order, after the point
\* (0, 0) put in front.  The target is indexed with the positions of the
\* sorted scores.
roc[p \in Seq(Int), pos \in Seq(BOOLEAN)] ==
    IF Len(p) > Len(pos)
    THEN [raised |-> "IndexError: index out of range", fpr |-> <<>>, tpr |-> <<>>]
    ELSE LET thresholds == SortDesc[SeqToSet(p)]
             threshold_idxs == [j \in 1..Len(thresholds) |->
                                 Cardinality({i \in 1..Len(p) : p[i] >= thresholds[j]}) - 1]
             tps == [j \in 1..Len(thresholds) |->
                      Cardinality({i \in 1..Len(p) : p[i] >= thresholds[j] /\ pos[i]})]
             fps == [j \in 1..Len(thresholds) |-> 1 + threshold_idxs[j] - tps[j]]
         IN  [raised |-> "", fpr |-> roc_rate[<<0>> \o fps], tpr |-> roc_rate[<<0>> \o tps]]

\* torchmetrics auc(x, y, reorder=False): the trapezoidal rule, negated when
\* x is decreasing; x that is neither increasing nor decreasing is rejected.
SumSeq[v \in Floats] ==
    IF v = <<>> THEN Zero ELSE Add[SumSeq[SubSeq(v, 1, Len(v) - 1)], v[Len(v)]]

trapz[y \in Floats, x \in Floats] ==
    Div[SumSeq[[j \in 1..(Len(x) - 1) |-> Mul[Add[y[j + 1], y[j]], Sub[x[j + 1], x[j]]]]],
        FromInt[2]]

auc[x \in Floats, y \in Floats] ==
    LET dx == <<>> \o [j \in 1..(Len(x) - 1) |-> Sub[x[j + 1], x[j]]]
    IN  IF \E j \in 1..Len(dx) : Lt[dx[j], Zero]
        THEN IF \A j \in 1..Len(dx) : Le[dx[j], Zero]
             THEN [raised |-> "", val |-> Neg[trapz[y, x]]]
             ELSE [raised |-> "ValueError: The x tensor is neither increasing or decreasing",
                   val |-> Zero]
        ELSE [raised |-> "", val |-> trapz[y, x]]

(***************************************************************************)
(* AUPRO.interp1d                                                          *)
(***************************************************************************)

\* torch.finfo(torch.float32).eps = 2^-23
eps == [k |-> "fin", s |-> 1, m |-> 8388608, e |-> -46]

\* torch.searchsorted(sorted_sequence, v), right=False: binary search for the
\* first position whose element is not less than v.
lower_bound[bd \in Floats, v \in Float32, start \in Nat, end \in Nat] ==
    IF start >= end THEN start
    ELSE LET mid == start + (end - start) \div 2
         IN  IF ~Le[v, bd[mid + 1]]
             THEN lower_bound[bd, v, mid + 1, end]
             ELSE lower_bound[bd, v, start, mid]

searchsorted(sorted_sequence, v) == lower_bound[sorted_sequence, v, 0, Len(sorted_sequence)]

\* clamp without its lower bound.
clamp_upper_only(v, lo, hi) == IF v > hi THEN hi ELSE v

\* torch.clamp(v, lo, hi); when lo > hi every element becomes hi.
clamp(v, lo, hi) == IF lo > hi THEN hi ELSE IF v < lo THEN lo ELSE IF v > hi THEN hi ELSE v

\* seq[i] with a 0-based index, negative indices counting from the end.
at(seq, i) == IF i < 0 THEN seq[Len(seq) + i + 1] ELSE seq[i + 1]

\* old_y[idx] + slope[idx] * (new_x - old_x[idx])
y_new[old_x \in Floats, old_y \in Floats, new_x \in Floats, slope \in Floats, idx \in Seq(Int)] ==
    <<>> \o [j \in 1..Len(new_x) |->
                Add[at(old_y, idx[j]), Mul[at(slope, idx[j]), Sub[new_x[j], at(old_x, idx[j])]]]]

\* With fewer than two knots slope is empty and indexing it fails.
interp1d(old_x, old_y, new_x) ==
    IF Len(new_x) > 0 /\ Len(old_x) < 2
    THEN [raised |-> "IndexError: index out of range", val |-> <<>>]
    ELSE [raised |-> "",
          val |-> y_new[old_x, old_y, new_x,
                        [i \in 1..(Len(old_x) - 1) |->
                            Div[Sub[old_y[i + 1], old_y[i]], Add[eps, Sub[old_x[i + 1], old_x[i]]]]],
                        [j \in 1..Len(new_x) |->
                            clamp(searchsorted(old_x, new_x[j]) - 1, 0, Len(old_x) - 2)]]]

(***************************************************************************)
(* AUPRO._compute and AUPRO.compute                                        *)
(***************************************************************************)

\* What a call leaves behind: the exception it raised ("" if none), the value
\* it returned, and the intermediate values of _compute.
NoOutcome ==
    [op |-> "init", raised |-> "", value |-> Zero, title |-> "",
     fpr |-> <<>>, tpr |-> <<>>, tmin |-> 0, tmax |-> 0, output_size |-> -1,
     cca |-> <<>>, labels |-> <<>>]

\* torch.where(c)[0]: the 0-based positions where c holds, ascending.
where(c) == SortAsc[{i - 1 : i \in {j \in 1..Len(c) : c[j]}}]

\* A pair of curves, or the exception raised on the way to them.
Curve == [raised : STRING, tpr : Floats, fpr : Floats]

Raised(msg) == [raised |-> msg, tpr |-> <<>>, fpr |-> <<>>]

Outcome ==
    [op : STRING, raised : STRING, value : Float32, title : STRING,
     fpr : Floats, tpr : Floats, tmin : Int, tmax : Int,
     output_size : Int, cca : Seq(Nat), labels : Seq(Nat)]

\* The region's curve at the points _fpr_idx, resampled at new_idx.
resampled[_fpr \in Floats, _tpr \in Floats, _fpr_idx \in Floats, new_idx \in Floats] ==
    LET itpr == interp1d(_fpr_idx, _tpr, new_idx)
        ifpr == interp1d(_fpr_idx, _fpr, new_idx)
    IN  IF itpr.raised # "" THEN Raised(itpr.raised)
        ELSE IF ifpr.raised # "" THEN Raised(ifpr.raised)
        ELSE [raised |-> "", tpr |-> itpr.val, fpr |-> ifpr.val]

\* The part of the region's roc r at the positions _fpr_idx, which are
\* rescaled to 0 .. output_size - 1; max() of an empty tensor fails.
truncated[r \in Curve, _fpr_idx \in Seq(Nat), output_size \in Nat] ==
    IF _fpr_idx = <<>> \/ output_size = 0
    THEN Raised("RuntimeError: max(): Expected reduction dim to be specified for input.numel() == 0")
    ELSE resampled[[i \in 1..Len(_fpr_idx) |-> r.fpr[_fpr_idx[i] + 1]],
                   [i \in 1..Len(_fpr_idx) |-> r.tpr[_fpr_idx[i] + 1]],
                   [i \in 1..Len(_fpr_idx) |->
                       Mul[Div[FromInt[_fpr_idx[i]], FromInt[_fpr_idx[Len(_fpr_idx)]]],
                           FromInt[output_size - 1]]],
                   [j \in 1..output_size |-> FromInt[j - 1]]]

\* The body of the loop up to the resampled curve of the region with roc r.
region_curve[r \in Curve, limit \in Float32, output_size \in Nat] ==
    IF r.raised # "" THEN r
    ELSE truncated[r, where([i \in 1..Len(r.fpr) |-> Le[r.fpr[i], limit]]), output_size]

\* tpr += _tpr; fpr += _fpr
accumulate[acc \in Curve, c \in Curve] ==
    IF c.raised # "" THEN c
    ELSE [raised |-> "",
          tpr |-> <<>> \o [j \in 1..Len(acc.tpr) |-> Add[acc.tpr[j], c.tpr[j]]],
          fpr |-> <<>> \o [j \in 1..Len(acc.fpr) |-> Add[acc.fpr[j], c.fpr[j]]]]

\* The loop over the labels; acc holds the running sums tpr and fpr.
region_loop[labels \in Seq(Nat), p \in Seq(Int), cca \in Seq(Nat), limit \in Float32, output_size \in Nat, acc \in Curve] ==
    IF labels = <<>> \/ acc.raised # "" THEN acc
    ELSE region_loop[Tail(labels), p, cca, limit, output_size,
                     accumulate[acc,
                                region_curve[roc[p, [i \in 1..Len(cca) |-> cca[i] = Head(labels)]],
                                             limit, output_size]]]

\* tpr /= labels.size(0); fpr /= labels.size(0)
averaged[o \in Outcome, acc \in Curve] ==
    IF acc.raised # "" THEN [o EXCEPT !.raised = acc.raised]
    ELSE [o EXCEPT !.tpr = <<>> \o [j \in 1..Len(acc.tpr) |-> Div[acc.tpr[j], FromInt[Len(o.labels)]]],
                   !.fpr = <<>> \o [j \in 1..Len(acc.fpr) |-> Div[acc.fpr[j], FromInt[Len(o.labels)]]]]

\* _compute once output_size and the labels are known (fields of o).
pro_curve[o \in Outcome, p \in Seq(Int), limit \in Float32] ==
    averaged[o, region_loop[o.labels, p, o.cca, limit, o.output_size,
                            [raised |-> "",
                             tpr |-> [j \in 1..o.output_size |-> Zero],
                             fpr |-> [j \in 1..o.output_size |-> Zero]]]]

\* _compute once the regions are labelled (cca) and the global roc g is known.
labelled[o \in Outcome, p \in Seq(Int), limit \in Float32, cca \in Seq(Nat), g \in Curve] ==
    IF g.raised # "" THEN [o EXCEPT !.raised = g.raised, !.cca = cca]
    ELSE pro_curve[[o EXCEPT !.cca = cca,
                             !.labels = Tail(unique(cca)),
                             !.output_size = Len(where([i \in 1..Len(g.fpr) |-> Le[g.fpr[i], limit]]))],
                   p, limit]

\* The check of the target's range before the labelling.
out_of_range(tmin, tmax) == tmin < 0 \/ tmax > 1

TensorValue == [shape : Seq(Nat), data : Seq(Int)]

\* _compute once the minimum and the maximum of the target t are known.
checked[t \in TensorValue, p \in Seq(Int), limit \in Float32, tmin \in Int, tmax \in Int] ==
    IF out_of_range(tmin, tmax)
    THEN [NoOutcome EXCEPT
            !.raised = "ValueError: kornia.contrib.connected_components expects input to lie in the interval [0, 1]",
            !.tmin = tmin, !.tmax = tmax]
    ELSE labelled[[NoOutcome EXCEPT !.tmin = tmin, !.tmax = tmax], p, limit,
                  connected_components(t), roc[p, [i \in 1..Len(t.data) |-> t.data[i] = 1]]]

Concatenated == [raised : STRING, val : TensorValue]

\* _compute once the buffers are concatenated.
concatenated[tc \in Concatenated, pc \in Concatenated, limit \in Float32] ==
    IF tc.raised # "" THEN [NoOutcome EXCEPT !.raised = tc.raised]
    ELSE IF pc.raised # "" THEN [NoOutcome EXCEPT !.raised = pc.raised]
    ELSE checked[tc.val, pc.val.data, limit,
                 SetMin(SeqToSet(tc.val.data)), SetMax(SeqToSet(tc.val.data))]

_compute(predsBuf, targetBuf, limit) ==
    concatenated[dim_zero_cat(targetBuf), dim_zero_cat(predsBuf), limit]

\* What auc returns or raises.
Area == [raised : STRING, val : Float32]

\* aupro / fpr[-1]
normalized[c \in Outcome, a \in Area] ==
    IF a.raised # "" THEN [c EXCEPT !.raised = a.raised]
    ELSE IF Len(c.fpr) = 0 THEN [c EXCEPT !.raised = "IndexError: index out of range"]
    ELSE [c EXCEPT !.value = Div[a.val, c.fpr[Len(c.fpr)]]]

\* compute() after _compute returned or raised.
area[c \in Outcome] == IF c.raised # "" THEN c ELSE normalized[c, auc[c.fpr, c.tpr]]

\* compute(): the area under the curve of _compute, divided by its last fpr.
aupro(predsBuf, targetBuf, limit) == area[_compute(predsBuf, targetBuf, limit)]

(***************************************************************************)
(* The metric as a state machine                                           *)
(***************************************************************************)

VARIABLES
    preds,      \* self.preds: the list of buffered prediction tensors
    target,     \* self.target: the list of buffered target tensors
    fpr_limit,  \* self.fpr_limit
    out,        \* the outcome of the last call
    calls,      \* history: the <<preds, target>> arguments of the update calls
    probe       \* a direct call of the static method interp1d

vars == <<preds, target, fpr_limit, out, calls, probe>>

\* Bound: the number of elements either buffer may hold.
MaxPixels == 3

\* Bound: the number of knots of a direct call of interp1d.
MaxKnots == 3

\* Bound: the knots of a direct call lie on the grid 0, 1/2, ..., MaxX/2.
MaxX == 4

Shapes == {<<1, 1, 1>>, <<1, 1, 2>>}

PredVals == {1, 2}

TargetVals == {-1, 0, 1, 2}

Tensors(vals) ==
    {Tensor(st[1], st[2]) : st \in UNION {{sh} \X [1..Numel(sh) -> vals] : sh \in Shapes}}

PredTensors == Tensors(PredVals)

TargetTensors == Tensors(TargetVals)

FprLimits == {Div[FromInt[3], FromInt[10]], Div[FromInt[1], FromInt[2]]}

Buffered(buf) == Len(CatData(buf))

NoProbe ==
    [old_x |-> <<>>, old_y |-> <<>>, new_x |-> <<>>, y_new |-> <<>>,
     raised |-> "", done |-> FALSE]

Init ==
    /\ preds = <<>>
    /\ target = <<>>
    /\ fpr_limit \in FprLimits
    /\ out = NoOutcome
    /\ calls = <<>>
    /\ probe = NoProbe

\* update that puts the new preds in front of the buffer instead of behind it.
update_preds_in_front(p, t) ==
    /\ Buffered(preds) + Numel(p.shape) <= MaxPixels
    /\ Buffered(target) + Numel(t.shape) <= MaxPixels
    /\ target' = Append(target, t)
    /\ preds' = <<p>> \o preds
    /\ out' = [NoOutcome EXCEPT !.op = "update"]
    /\ calls' = Append(calls, <<p, t>>)
    /\ UNCHANGED <<fpr_limit, probe>>

update(p, t) ==
    /\ Buffered(preds) + Numel(p.shape) <= MaxPixels
    /\ Buffered(target) + Numel(t.shape) <= MaxPixels
    /\ target' = Append(target, t)
    /\ preds' = Append(preds, p)
    /\ out' = [NoOutcome EXCEPT !.op = "update"]
    /\ calls' = Append(calls, <<p, t>>)
    /\ UNCHANGED <<fpr_limit, probe>>

compute ==
    /\ out' = [aupro(preds, target, fpr_limit) EXCEPT !.op = "compute"]
    /\ UNCHANGED <<preds, target, fpr_limit, calls, probe>>

generate_figure ==
    /\ \E c \in {_compute(preds, target, fpr_limit)} :
          IF c.raised # ""
          THEN out' = [c EXCEPT !.op = "generate_figure"]
          ELSE \E a \in {aupro(preds, target, fpr_limit)} :
                  out' = IF a.raised # ""
                         THEN [a EXCEPT !.op = "generate_figure"]
                         ELSE [a EXCEPT !.op = "generate_figure", !.title = "PRO"]
    /\ UNCHANGED <<preds, target, fpr_limit, calls, probe>>

Next ==
    \/ \E p \in PredTensors, t \in TargetTensors : update(p, t)
    \/ compute
    \/ generate_figure

Spec == Init /\ [][Next]_vars

(***************************************************************************)
(* Direct calls of interp1d                                                *)
(***************************************************************************)

YVals == {-1, 0, 1}

\* The knot k/2.
Knot(k) == Div[FromInt[k], FromInt[2]]

\* Nondecreasing knot sequences; strictly increasing ones are among them.
KnotSeqs ==
    UNION {{ks \in [1..n -> 0..MaxX] : \A i \in 1..(n - 1) : ks[i] <= ks[i + 1]} : n \in 1..MaxKnots}

InitInterp ==
    /\ preds = <<>>
    /\ target = <<>>
    /\ fpr_limit = Div[FromInt[3], FromInt[10]]
    /\ out = NoOutcome
    /\ calls = <<>>
    /\ \E ks \in KnotSeqs, onknots \in BOOLEAN :
          \E ys \in [1..Len(ks) -> YVals] :
             \E old_x \in {[i \in 1..Len(ks) |-> Knot(ks[i])]} :
                probe = [NoProbe EXCEPT
                            !.old_x = old_x,
                            !.old_y = [i \in 1..Len(ks) |-> FromInt[ys[i]]],
                            !.new_x = IF onknots THEN old_x
                                      ELSE [i \in 1..Len(ks) |-> FromInt[i - 1]]]

interp1d_call ==
    /\ ~probe.done
    /\ \E r \in {interp1d(probe.old_x, probe.old_y, probe.new_x)} :
          probe' = [probe EXCEPT !.y_new = r.val, !.raised = r.raised, !.done = TRUE]
    /\ UNCHANGED <<preds, target, fpr_limit, out, calls>>

NextInterp == interp1d_call

SpecInterp == InitInterp /\ [][NextInterp]_vars

(***************************************************************************)
(* Properties                                                              *)
(***************************************************************************)

\* The accumulated target pixels, in buffer order.
TargetPixels == CatData(target)

\* The accumulated prediction pixels, in buffer order.
PredPixels == CatData(preds)

Last(s) == s[Len(s)]

\* The two arguments of an update call differ in shape.
Mismatched(call) == call[1].shape # call[2].shape

\* Every update call had preds.shape = target.shape.
EqualShapes == \A i \in 1..Len(calls) : ~Mismatched(calls[i])

\* Every image of every update call has the size of the first.
SameImageSize ==
    \A i \in 1..Len(calls) : \A a \in 1..2 :
        calls[i][a].shape[2] = calls[1][1].shape[2] /\ calls[i][a].shape[3] = calls[1][1].shape[3]

BinaryTarget == \A i \in 1..Len(TargetPixels) : TargetPixels[i] \in {0, 1}

Foreground == \E i \in 1..Len(TargetPixels) : TargetPixels[i] = 1

\* The valid inputs of the metric: at least one batch, equal shapes, target
\* values in {0, 1}, at least one foreground pixel.
ValidInputs == Len(calls) > 0 /\ EqualShapes /\ SameImageSize /\ BinaryTarget /\ Foreground

\* compute() was the last call; the buffers are those it ran on.
Computed == out.op = "compute"

Returned == out.raised = ""

InUnitInterval(v) == v.k = "fin" /\ Le[Zero, v] /\ Le[v, FromInt[1]]

\* C1: for valid inputs (equal shapes, target values in {0, 1}, at least one
\* foreground region) the score compute() returns lies in [0, 1].
C1_ScoreInUnitInterval == (Computed /\ ValidInputs /\ Returned) => InUnitInterval(out.value)

\* The targets concatenate: all target images have one size.
TargetsConcatenate ==
    /\ Len(target) > 0
    /\ \A i \in 1..Len(target) :
          target[i].shape[2] = target[1].shape[2] /\ target[i].shape[3] = target[1].shape[3]

OutOfRangeTarget == \E i \in 1..Len(TargetPixels) : TargetPixels[i] < 0 \/ TargetPixels[i] > 1

\* compute() raised the range error with the observed minimum and maximum,
\* before any labelling or curve computation.
RangeErrorRaised ==
    /\ out.raised = "ValueError: kornia.contrib.connected_components expects input to lie in the interval [0, 1]"
    /\ out.tmin = SetMin(SeqToSet(TargetPixels))
    /\ out.tmax = SetMax(SeqToSet(TargetPixels))
    /\ out.cca = <<>> /\ out.labels = <<>> /\ out.output_size = -1
    /\ out.fpr = <<>> /\ out.tpr = <<>>

\* C2: if the concatenated targets contain a value below 0 or above 1,
\* compute() raises the ValueError that reports the observed minimum and
\* maximum, before any labelling or curve computation, and returns no score.
C2_RangeErrorBeforeLabelling ==
    (Computed /\ TargetsConcatenate /\ OutOfRangeTarget) => RangeErrorRaised

\* C3: update(preds, target) with preds.shape # target.shape fails with an
\* error and extends neither buffer.
C3_MismatchedUpdateRejected ==
    [][(out'.op = "update" /\ Len(calls') = Len(calls) + 1 /\ Mismatched(Last(calls')))
          => (out'.raised # "" /\ preds' = preds /\ target' = target)]_vars

\* C4: compute() on a metric that was never updated fails with the error of
\* the empty state; it returns no score and no NaN.
C4_EmptyStateError ==
    (Computed /\ calls = <<>>) =>
        (out.raised = "ValueError: No samples to concatenate" /\ out.value = NoOutcome.value)

\* compute() ran on empty buffers and raised.
C4_Witness == Computed /\ calls = <<>> /\ preds = <<>> /\ target = <<>> /\ ~Returned

\* C5: when every accumulated target pixel is 0, compute() raises an error
\* rather than returning a number.
C5_NoForegroundRaises ==
    (Computed /\ TargetsConcatenate /\ \A i \in 1..Len(TargetPixels) : TargetPixels[i] = 0)
        => ~Returned

\* C6: when fewer than 2 points of the global ROC curve have fpr <= fpr_limit
\* (output_size < 2), compute() does not return a score computed by the
\* per-region rescaling and interpolation: it raises.
C6_SmallOutputSizeHandled ==
    (Computed /\ out.output_size >= 0 /\ out.output_size < 2) => ~Returned

\* C7: the two buffers have the length of the number of update calls, preds[i]
\* and target[i] are the arguments of the i-th update call, in arrival order;
\* compute() and generate_figure() change neither buffer.
C7_BuffersPairInArrivalOrder ==
    /\ Len(preds) = Len(calls)
    /\ Len(target) = Len(calls)
    /\ \A i \in 1..Len(calls) : preds[i] = calls[i][1] /\ target[i] = calls[i][2]

\* compute() or generate_figure() ran after two different update calls.
C7_Witness ==
    /\ out.op \in {"compute", "generate_figure"}
    /\ Len(calls) >= 2
    /\ calls[1][1] # calls[2][1]
    /\ calls[1][2] # calls[2][2]

StrictlyIncreasing(x) == \A i \in 1..(Len(x) - 1) : Lt[x[i], x[i + 1]]

\* interp1d(old_x, old_y, old_x) was called with strictly increasing old_x of
\* at least 2 elements.
CalledAtKnots ==
    /\ probe.done
    /\ probe.new_x = probe.old_x
    /\ Len(probe.old_x) >= 2
    /\ StrictlyIncreasing(probe.old_x)

TargetLabelMap == connected_components(dim_zero_cat(target).val)

\* The labels of the foreground pixels: one label for each connected region.
RegionLabels == {TargetLabelMap[i] : i \in {j \in 1..Len(TargetPixels) : TargetPixels[j] = 1}}

\* The ROC curve of the foreground against the accumulated preds.
ForegroundROC == roc[PredPixels, [i \in 1..Len(TargetPixels) |-> TargetPixels[i] = 1]]

\* The positions of the points of ForegroundROC with fpr <= fpr_limit.
Retained == where([i \in 1..Len(ForegroundROC.fpr) |-> Le[ForegroundROC.fpr[i], fpr_limit]])

\* The trapezoidal area under the retained points of ForegroundROC, divided by
\* the last retained fpr.
DirectScore ==
    LET _fpr == [i \in 1..Len(Retained) |-> ForegroundROC.fpr[Retained[i] + 1]]
        _tpr == [i \in 1..Len(Retained) |-> ForegroundROC.tpr[Retained[i] + 1]]
    IN  Div[auc[_fpr, _tpr].val, _fpr[Len(Retained)]]

\* C9: when the accumulated target holds exactly one connected foreground
\* region, compute() returns the area under that region's own ROC curve
\* truncated to fpr <= fpr_limit, divided by the last retained fpr.
C9_SingleRegionScoreIsDirect ==
    (Computed /\ ValidInputs /\ Cardinality(RegionLabels) = 1 /\ DirectScore.k = "fin")
        => (Returned /\ out.value = DirectScore)

\* C10: the labels whose curves compute() accumulates and counts are exactly
\* the distinct positive labels of the label map, each foreground region once,
\* also for a target without a background pixel.
C10_LabelsAreTheRegions ==
    (Computed /\ out.output_size >= 0) =>
        /\ SeqToSet(out.labels) = SeqToSet(out.cca) \ {0}
        /\ Len(out.labels) = Cardinality(RegionLabels)

\* With preds that concatenate, the range check is what an out of range
\* target meets.
RangeErrorWhenPredsConcatenate ==
    (Computed /\ TargetsConcatenate /\ OutOfRangeTarget /\ dim_zero_cat(preds).raised = "")
        => RangeErrorRaised

====
